---- MODULE Spec2Model ----
(***************************************************************************)
(* Model of icy-sysmonitor: the application controller (window.rs), the    *)
(* settings page (views/settings.rs), the home page (views/home.rs) and    *)
(* the config store (config.rs).                                           *)
(*                                                                         *)
(* Intervals are u64 milliseconds.  The config file is a sequence of       *)
(* characters.  The f64 carried by UpdateIntervalChanged is a rational     *)
(* value/F64Den seconds.  Every filesystem call can fail; the outcome of   *)
(* each call of a handler is drawn from Failures.                          *)
(***************************************************************************)
EXTENDS Integers, Sequences, FiniteSets, TLC

VARIABLES
    pc,       \* "boot" before ApplicationWindow::new, then "running" or "panicked"
    env,      \* what the platform gives: whether ProjectDirs::from finds a home
    fs,       \* the config directory and the config file
    sys,      \* ApplicationWindow.sys, the metrics snapshot
    page,     \* ApplicationWindow.page
    config,   \* ApplicationWindow.config, the committed Config
    last,     \* the message the last step handled
    io        \* the filesystem calls the last step made

vars == <<pc, env, fs, sys, page, config, last, io>>

----------------------------------------------------------------------------
(* Bounds *)

\* Slider positions offered to UpdateIntervalChanged, in tenths of a second.
MaxSlider == 3

\* Largest page index offered to TabSelected.
MaxIndex == 3

\* Number of distinct readings the metrics source can report per quantity.
MaxReading == 1

\* Largest of the small values the save/load round trip is tried on.
MaxRoundTrip == 40

----------------------------------------------------------------------------
(* Config store: config.rs *)

\* Config::default
Config_default == [update_interval |-> 1000]

NoFile == [exists |-> FALSE]

File(contents) == [exists |-> TRUE, contents |-> contents]

Digit == <<"0", "1", "2", "3", "4", "5", "6", "7", "8", "9">>

KeyPrefix ==
    <<"u", "p", "d", "a", "t", "e", "_", "i", "n", "t", "e", "r", "v", "a", "l", " ", "=", " ">>

RECURSIVE u64_to_string(_)
\* Decimal rendering of an unsigned integer, most significant digit first.
u64_to_string(n) ==
    IF n < 10 THEN <<Digit[n + 1]>>
    ELSE u64_to_string(n \div 10) \o <<Digit[(n % 10) + 1]>>

\* The largest u64, and the largest integer a TOML document can hold (the
\* largest i64), as decimal digits.
U64Max == <<"1", "8", "4", "4", "6", "7", "4", "4", "0", "7",
            "3", "7", "0", "9", "5", "5", "1", "6", "1", "5">>

I64Max == <<"9", "2", "2", "3", "3", "7", "2", "0", "3", "6",
            "8", "5", "4", "7", "7", "5", "8", "0", "7">>

IsDigit(ch) == \E d \in 1..10 : Digit[d] = ch

DigitValue(ch) == (CHOOSE d \in 1..10 : Digit[d] = ch) - 1

\* a <= b for two decimal numbers without leading zeros.
DecLeq(a, b) ==
    \/ Len(a) < Len(b)
    \/ /\ Len(a) = Len(b)
       /\ \/ a = b
          \/ \E i \in 1..Len(a) :
                /\ \A j \in 1..(i - 1) : a[j] = b[j]
                /\ DigitValue(a[i]) < DigitValue(b[i])

\* toml::to_string on the decimal digits of update_interval.  A build whose
\* serializer checks the range (checked) refuses a value above the largest
\* i64; one that does not writes the digits as they are.
toml_serialize(digits, checked) ==
    IF checked /\ ~DecLeq(digits, I64Max) THEN [ok |-> FALSE]
    ELSE [ok |-> TRUE, text |-> KeyPrefix \o digits \o <<"\n">>]

\* Mutant of toml_to_string: writes the interval in seconds.
toml_to_string_seconds(c) ==
    KeyPrefix \o u64_to_string(c.update_interval \div 1000) \o <<"\n">>

\* toml::to_string(&Config): one key/value line.
toml_to_string(c) == toml_serialize(u64_to_string(c.update_interval), TRUE).text

RECURSIVE string_to_u64(_)
\* Value of a non-empty sequence of decimal digits.
string_to_u64(s) ==
    IF Len(s) = 1 THEN DigitValue(s[1])
    ELSE 10 * string_to_u64(SubSeq(s, 1, Len(s) - 1)) + DigitValue(s[Len(s)])

\* Mutant of toml_parse: the integer is read as a 32-bit one.
toml_parse_i32(s) ==
    LET body == IF Len(s) > 0 /\ s[Len(s)] = "\n" THEN SubSeq(s, 1, Len(s) - 1) ELSE s
        n    == Len(KeyPrefix)
        num  == SubSeq(body, n + 1, Len(body))
    IN  IF /\ Len(body) > n
           /\ SubSeq(body, 1, n) = KeyPrefix
           /\ \A i \in 1..Len(num) : IsDigit(num[i])
           /\ (Len(num) > 1 => num[1] # "0")
           /\ DecLeq(num, <<"2", "1", "4", "7", "4", "8", "3", "6", "4", "7">>)
        THEN [ok |-> TRUE, digits |-> num]
        ELSE [ok |-> FALSE]

\* The parser of toml::from_str::<Config>: accepts "update_interval =
\* <integer>" with an optional trailing newline and returns the digits; an
\* empty document (missing field), a leading zero, a non-digit or an
\* integer above the largest i64 is a parse error.
toml_parse(s) ==
    LET body == IF Len(s) > 0 /\ s[Len(s)] = "\n" THEN SubSeq(s, 1, Len(s) - 1) ELSE s
        n    == Len(KeyPrefix)
        num  == SubSeq(body, n + 1, Len(body))
    IN  IF /\ Len(body) > n
           /\ SubSeq(body, 1, n) = KeyPrefix
           /\ \A i \in 1..Len(num) : IsDigit(num[i])
           /\ (Len(num) > 1 => num[1] # "0")
           /\ DecLeq(num, I64Max)
        THEN [ok |-> TRUE, digits |-> num]
        ELSE [ok |-> FALSE]

\* toml::from_str::<Config>
toml_from_str(s) ==
    LET r == toml_parse(s)
    IN  IF r.ok THEN [ok |-> TRUE, config |-> [update_interval |-> string_to_u64(r.digits)]]
        ELSE [ok |-> FALSE]

\* Outcomes of the filesystem calls of one handler: whether create_dir_all
\* and read_to_string fail, and how fs::write ends ("partial": the file was
\* created or truncated and the write then failed).
Failures == [mkdir : BOOLEAN, read : BOOLEAN, write : {"ok", "denied", "partial"}]

NoFailure == [mkdir |-> FALSE, read |-> FALSE, write |-> "ok"]

\* An entry of the log of filesystem calls: the call and whether it succeeded.
Call(op, ok) == [op |-> op, ok |-> ok]

\* A world is what a config-store call sees and changes: the filesystem,
\* the calls made so far and whether the call panicked.
World(e, f, l) == [project_dirs |-> e.project_dirs, dir |-> f.dir, file |-> f.file,
                   io |-> l, panicked |-> FALSE]

\* Config::get_config_path: panics when ProjectDirs::from returns None.
get_config_path(w) == IF w.project_dirs THEN w ELSE [w EXCEPT !.panicked = TRUE]

\* Config::ensure_config_dir_exists
ensure_config_dir_exists(w0, f) ==
    LET w == get_config_path(w0)
    IN  IF w.panicked THEN [ok |-> FALSE, w |-> w]
        ELSE IF ~w.dir
        THEN IF ~f.mkdir
             THEN [ok |-> TRUE,
                   w |-> [w EXCEPT !.dir = TRUE, !.io = @ \cup {Call("mkdir", TRUE)}]]
             ELSE [ok |-> FALSE, w |-> [w EXCEPT !.io = @ \cup {Call("mkdir", FALSE)}]]
        ELSE [ok |-> TRUE, w |-> w]

\* std::fs::write(config_path, config_str)
fs_write(w, str, f) ==
    LET w1 == [w EXCEPT !.io = @ \cup {Call("write", f.write = "ok")}]
    IN  CASE f.write = "ok"      -> [ok |-> TRUE,  w |-> [w1 EXCEPT !.file = File(str)]]
          [] f.write = "denied"  -> [ok |-> FALSE, w |-> w1]
          [] f.write = "partial" -> [ok |-> FALSE, w |-> [w1 EXCEPT !.file = File(<<>>)]]

\* Mutant of load: overwrites a file it cannot parse with the default one.
load_self_heals(w0, f) ==
    LET w == get_config_path(w0)
    IN  IF w.panicked THEN [config |-> Config_default, w |-> w]
        ELSE IF w.file.exists
        THEN LET w1 == [w EXCEPT !.io = @ \cup {Call("read", ~f.read)}]
             IN  IF f.read
                 THEN [config |-> Config_default, w |-> w1]
                 ELSE LET r == toml_from_str(w.file.contents)
                      IN  IF r.ok THEN [config |-> r.config, w |-> w1]
                          ELSE [config |-> Config_default,
                                w |-> fs_write(w1, toml_to_string(Config_default), f).w]
        ELSE LET e == ensure_config_dir_exists(w, f)
             IN  IF ~e.ok THEN [config |-> Config_default, w |-> e.w]
                 ELSE LET wr == fs_write(e.w, toml_to_string(Config_default), f)
                      IN  [config |-> Config_default, w |-> wr.w]

\* Config::load
load(w0, f) ==
    LET w == get_config_path(w0)
    IN  IF w.panicked THEN [config |-> Config_default, w |-> w]
        ELSE IF w.file.exists
        THEN LET w1 == [w EXCEPT !.io = @ \cup {Call("read", ~f.read)}]
             IN  IF f.read
                 THEN [config |-> Config_default, w |-> w1]
                 ELSE LET r == toml_from_str(w.file.contents)
                      IN  IF r.ok THEN [config |-> r.config, w |-> w1]
                          ELSE [config |-> Config_default, w |-> w1]
        ELSE LET e == ensure_config_dir_exists(w, f)
             IN  IF ~e.ok THEN [config |-> Config_default, w |-> e.w]
                 ELSE LET wr == fs_write(e.w, toml_to_string(Config_default), f)
                      IN  [config |-> Config_default, w |-> wr.w]

\* Mutant of save: ignores the result of ensure_config_dir_exists.
save_ignores_dir_error(c, w0, f) ==
    LET w == get_config_path(w0)
    IN  IF w.panicked THEN w
        ELSE LET e  == ensure_config_dir_exists(w, f)
                 wr == fs_write(e.w, toml_to_string(c), f)
             IN  IF wr.ok THEN wr.w ELSE [wr.w EXCEPT !.panicked = TRUE]

\* Mutant of save: ensures the directory and writes nothing.
save_without_write(c, w0, f) ==
    LET w == get_config_path(w0)
    IN  IF w.panicked THEN w ELSE ensure_config_dir_exists(w, f).w

\* Config::save: returns the world after the call; panics when the write fails.
save(c, w0, f) ==
    LET w == get_config_path(w0)
    IN  IF w.panicked THEN w
        ELSE LET e == ensure_config_dir_exists(w, f)
             IN  IF ~e.ok THEN e.w
                 ELSE LET wr == fs_write(e.w, toml_to_string(c), f)
                      IN  IF wr.ok THEN wr.w ELSE [wr.w EXCEPT !.panicked = TRUE]

----------------------------------------------------------------------------
(* Settings page: views/settings.rs *)

Home == [tag |-> "Home"]

Settings(state) == [tag |-> "Settings", state |-> state]

\* SettingsState::new
SettingsState_new(c) == [update_interval |-> c.update_interval]

\* The f64 of UpdateIntervalChanged is value / F64Den seconds.
F64Den == 10000

\* Mutant of f64_to_millis: the seconds are not converted to milliseconds.
f64_to_millis_seconds(value) == IF value <= 0 THEN 0 ELSE value \div F64Den

\* Mutant of f64_to_millis: the result is clamped to the slider's range.
f64_to_millis_clamped(value) ==
    LET millis == IF value <= 0 THEN 0 ELSE (value * 1000) \div F64Den
    IN  IF millis < 100 THEN 100 ELSE IF millis > 10000 THEN 10000 ELSE millis

\* (value * 1000.0) as u64: truncation toward zero, negatives saturate to 0.
f64_to_millis(value) == IF value <= 0 THEN 0 ELSE (value * 1000) \div F64Den

\* The values the slider of get_update_interval_row sends: steps of 0.1 s.
SliderValues == {k * (F64Den \div 10) : k \in 1..MaxSlider}

\* A value between two slider steps, which only a hand-made message carries.
OffStepValues == {F64Den \div 10 + 9}

SettingsMessage ==
    [type : {"UpdateIntervalChanged"}, value : SliderValues \cup OffStepValues]
    \cup {[type |-> t] : t \in {"SaveSettings", "CancelSettings", "ResetSettings"}}

\* An application state as a handler sees it.
App(p, c, w) == [page |-> p, config |-> c, w |-> w]

RECURSIVE settings_page_update(_, _, _)

\* Mutant of update_interval_changed: an edit is saved at once.
update_interval_changed_persists(a, value) ==
    [a EXCEPT !.page.state.update_interval = f64_to_millis(value),
              !.w = save([update_interval |-> f64_to_millis(value)], a.w, NoFailure)]

\* settings_page_update, arm SettingsMessage::UpdateIntervalChanged(value)
update_interval_changed(a, value) ==
    [a EXCEPT !.page.state.update_interval = f64_to_millis(value)]

\* settings_page_update, arm SettingsMessage::SaveSettings
save_settings(a, f) ==
    LET c == [a.config EXCEPT !.update_interval = a.page.state.update_interval]
    IN  [a EXCEPT !.config = c, !.w = save(c, a.w, f)]

\* Mutant of cancel_settings: the assignment is the wrong way round.
cancel_settings_swapped(a) ==
    [a EXCEPT !.config.update_interval = a.page.state.update_interval]

\* Mutant of cancel_settings: keeps the draft.
cancel_settings_keeps_draft(a) == a

\* settings_page_update, arm SettingsMessage::CancelSettings
cancel_settings(a) ==
    [a EXCEPT !.page.state.update_interval = a.config.update_interval]

\* Mutant of reset_settings: the nested CancelSettings runs before the
\* committed Config is replaced.
reset_settings_cancel_first(a, f) ==
    LET a0 == cancel_settings(a)
    IN  [a0 EXCEPT !.config = Config_default, !.w = save(Config_default, a.w, f)]

\* Mutant of reset_settings: no nested CancelSettings.
reset_settings_without_cancel(a, f) ==
    [a EXCEPT !.config = Config_default, !.w = save(Config_default, a.w, f)]

\* settings_page_update, arm SettingsMessage::ResetSettings: the nested
\* call is not reached when save panics.
reset_settings(a, f) ==
    LET w1 == save(Config_default, a.w, f)
        a1 == [a EXCEPT !.config = Config_default, !.w = w1]
    IN  IF w1.panicked THEN a1
        ELSE settings_page_update(a1, [type |-> "CancelSettings"], f)

\* The match on the message of settings_page_update.
settings_match(a, message, f) ==
    CASE message.type = "UpdateIntervalChanged" -> update_interval_changed(a, message.value)
      [] message.type = "SaveSettings"          -> save_settings(a, f)
      [] message.type = "CancelSettings"        -> cancel_settings(a)
      [] message.type = "ResetSettings"         -> reset_settings(a, f)

\* Mutant of settings_page_update: opens the settings page instead of
\* returning when it is not open.
settings_page_update_opens_page(a, message, f) ==
    settings_match(IF a.page.tag # "Settings"
                   THEN [a EXCEPT !.page = Settings(SettingsState_new(a.config))]
                   ELSE a,
                   message, f)

\* ApplicationWindow::settings_page_update: returns at once when the
\* settings page is not open.
settings_page_update(a, message, f) ==
    IF a.page.tag # "Settings" THEN a ELSE settings_match(a, message, f)

----------------------------------------------------------------------------
(* Application controller: window.rs *)

\* Mutant of from_index: the two indices are exchanged.
from_index_swapped(index, w, f) ==
    CASE index = 1 -> [some |-> TRUE, page |-> Home, w |-> w]
      [] index = 0 -> LET r == load(w, f)
                      IN  [some |-> TRUE, page |-> Settings(SettingsState_new(r.config)),
                           w |-> r.w]
      [] OTHER     -> [some |-> FALSE, w |-> w]

\* Mutant of from_index: any other index falls back to the home page.
from_index_falls_back(index, w, f) ==
    CASE index = 1 -> LET r == load(w, f)
                      IN  [some |-> TRUE, page |-> Settings(SettingsState_new(r.config)),
                           w |-> r.w]
      [] OTHER     -> [some |-> TRUE, page |-> Home, w |-> w]

\* MainWindowPage::from_index
from_index(index, w, f) ==
    CASE index = 0 -> [some |-> TRUE, page |-> Home, w |-> w]
      [] index = 1 -> LET r == load(w, f)
                      IN  [some |-> TRUE, page |-> Settings(SettingsState_new(r.config)),
                           w |-> r.w]
      [] OTHER     -> [some |-> FALSE, w |-> w]

\* MainWindowPage::to_index
to_index(p) == IF p.tag = "Home" THEN 0 ELSE 1

\* Mutant of subscription: the period follows the draft while the settings
\* page is open.
subscription_reads_draft ==
    IF page.tag = "Settings" THEN page.state.update_interval ELSE config.update_interval

\* ApplicationWindow::subscription: the period of time::every, in milliseconds.
subscription == config.update_interval

\* What sysinfo can report: one core's usage and the used memory.
Snapshots == [cpu_usage : 0..MaxReading, used_memory : 0..MaxReading]

Unconstructed == [tag |-> "Unconstructed"]

\* The config files a run can start from.
InitialFiles ==
    {NoFile, File(<<>>), File(KeyPrefix \o <<"x", "\n">>)}
    \cup {File(toml_to_string([update_interval |-> v])) : v \in {0, 500}}

InitialFs ==
    {[dir |-> d, file |-> fl] : d \in BOOLEAN, fl \in InitialFiles} \
    {[dir |-> FALSE, file |-> fl] : fl \in InitialFiles \ {NoFile}}

Init ==
    /\ pc = "boot"
    /\ env \in [project_dirs : BOOLEAN]
    /\ fs \in InitialFs
    /\ sys = Unconstructed
    /\ page = Unconstructed
    /\ config = Unconstructed
    /\ last = [type |-> "none"]
    /\ io = {}

\* The end of a handler: the state a handler leaves behind.
Commit(a) ==
    /\ page' = a.page
    /\ config' = a.config
    /\ fs' = [dir |-> a.w.dir, file |-> a.w.file]
    /\ io' = a.w.io
    /\ pc' = IF a.w.panicked THEN "panicked" ELSE "running"

\* ApplicationWindow::new
New ==
    /\ pc = "boot"
    /\ \E f \in Failures, s \in Snapshots :
        LET r == load(World(env, fs, {}), f)
        IN  /\ IF r.w.panicked
               THEN Commit(App(Unconstructed, Unconstructed, r.w)) /\ sys' = sys
               ELSE Commit(App(Home, r.config, r.w)) /\ sys' = s
            /\ last' = [type |-> "new"]
    /\ UNCHANGED env

\* Mutant of UpdateInfo: the tick also reloads the committed Config.
UpdateInfo_reloads_config ==
    /\ pc = "running"
    /\ \E s \in Snapshots : sys' = s
    /\ last' = [type |-> "UpdateInfo"]
    /\ io' = {}
    /\ config' = load(World(env, fs, {}), NoFailure).config
    /\ UNCHANGED <<pc, env, fs, page>>

\* ApplicationWindow::update, ApplicationMessage::UpdateInfo
UpdateInfo ==
    /\ pc = "running"
    /\ \E s \in Snapshots : sys' = s
    /\ last' = [type |-> "UpdateInfo"]
    /\ io' = {}
    /\ UNCHANGED <<pc, env, fs, page, config>>

\* Mutant of TabSelected: selecting the page that is open keeps it as it is.
TabSelected_keeps_open_page(index) ==
    /\ pc = "running"
    /\ \E f \in Failures :
        LET r == from_index(index, World(env, fs, {}), f)
        IN  Commit(App(IF r.some /\ ~r.w.panicked /\ r.page.tag # page.tag
                       THEN r.page ELSE page, config, r.w))
    /\ last' = [type |-> "TabSelected", index |-> index, on |-> page]
    /\ UNCHANGED <<env, sys>>

\* ApplicationWindow::update, ApplicationMessage::TabSelected(index)
TabSelected(index) ==
    /\ pc = "running"
    /\ \E f \in Failures :
        LET r == from_index(index, World(env, fs, {}), f)
        IN  Commit(App(IF r.some /\ ~r.w.panicked THEN r.page ELSE page, config, r.w))
    /\ last' = [type |-> "TabSelected", index |-> index, on |-> page]
    /\ UNCHANGED <<env, sys>>

\* ApplicationWindow::update, ApplicationMessage::SettingsPageUpdated(message)
SettingsPageUpdated(message) ==
    /\ pc = "running"
    /\ \E f \in Failures :
        Commit(settings_page_update(App(page, config, World(env, fs, {})), message, f))
    /\ last' = [type |-> "SettingsPageUpdated", message |-> message, on |-> page]
    /\ UNCHANGED <<env, sys>>

Next ==
    \/ New
    \/ UpdateInfo
    \/ \E index \in 0..MaxIndex : TabSelected(index)
    \/ \E message \in SettingsMessage : SettingsPageUpdated(message)

Spec == Init /\ [][Next]_vars

----------------------------------------------------------------------------
(* The application when UpdateIntervalChanged also carries values the       *)
(* slider does not send.                                                    *)

\* The ends of the slider's range, 0.1 s and 10.0 s.
SliderMin == F64Den \div 10

SliderMax == 10 * F64Den

\* Values outside the slider's range, which only a hand-made message
\* carries: 0.05 s and 10.5 s.
OutOfRangeValues == {F64Den \div 20, 10 * F64Den + F64Den \div 2}

\* The messages offered: the two ends of the range and the values outside it.
RangeMessage ==
    [type : {"UpdateIntervalChanged"}, value : {SliderMin, SliderMax} \cup OutOfRangeValues]
    \cup {[type |-> t] : t \in {"SaveSettings", "CancelSettings", "ResetSettings"}}

RangeNext ==
    \/ New
    \/ UpdateInfo
    \/ \E index \in 0..MaxIndex : TabSelected(index)
    \/ \E message \in RangeMessage : SettingsPageUpdated(message)

RangeSpec == Init /\ [][RangeNext]_vars

----------------------------------------------------------------------------
(* Config::save followed by Config::load, on every width of update_interval. *)
(* The values are decimal digits, so that the largest u64 can be written;    *)
(* env.checked tells whether the build's serializer checks the range.        *)

\* Config::default, in digits.
Config_default_digits == [update_interval |-> u64_to_string(Config_default.update_interval)]

\* Config::save of a Config in digits: panics when the serializer refuses
\* the value or the write fails.
save_digits(c, w0, f, checked) ==
    LET w == get_config_path(w0)
    IN  IF w.panicked THEN w
        ELSE LET e == ensure_config_dir_exists(w, f)
             IN  IF ~e.ok THEN e.w
                 ELSE LET t == toml_serialize(c.update_interval, checked)
                      IN  IF ~t.ok THEN [e.w EXCEPT !.panicked = TRUE]
                          ELSE LET wr == fs_write(e.w, t.text, f)
                               IN  IF wr.ok THEN wr.w ELSE [wr.w EXCEPT !.panicked = TRUE]

\* Config::load to a Config in digits.
load_digits(w0, f) ==
    LET w == get_config_path(w0)
    IN  IF w.panicked THEN [config |-> Config_default_digits, w |-> w]
        ELSE IF w.file.exists
        THEN LET w1 == [w EXCEPT !.io = @ \cup {Call("read", ~f.read)}]
             IN  IF f.read
                 THEN [config |-> Config_default_digits, w |-> w1]
                 ELSE LET r == toml_parse(w.file.contents)
                      IN  IF r.ok THEN [config |-> [update_interval |-> r.digits], w |-> w1]
                          ELSE [config |-> Config_default_digits, w |-> w1]
        ELSE LET e == ensure_config_dir_exists(w, f)
             IN  IF ~e.ok THEN [config |-> Config_default_digits, w |-> e.w]
                 ELSE LET wr == fs_write(e.w, toml_serialize(Config_default_digits.update_interval,
                                                             TRUE).text, f)
                      IN  [config |-> Config_default_digits, w |-> wr.w]

\* The largest i64 plus one, and two more values of 19 digits.
I64MaxPlus1 == [I64Max EXCEPT ![19] = "8"]

I64MaxMinus1 == [I64Max EXCEPT ![19] = "6"]

Nines19 == [i \in 1..19 |-> "9"]

\* The values the round trip is tried on.
RoundTripValues ==
    {u64_to_string(n) : n \in 0..MaxRoundTrip}
    \cup {u64_to_string(Config_default.update_interval), u64_to_string(10000)}
    \cup {I64MaxMinus1, I64Max, I64MaxPlus1, Nines19, U64Max}

RoundTripInit ==
    /\ pc = "constructed"
    /\ env \in [project_dirs : {TRUE}, checked : BOOLEAN]
    /\ fs \in {[dir |-> FALSE, file |-> NoFile], [dir |-> TRUE, file |-> NoFile],
               [dir |-> TRUE, file |-> File(toml_to_string(Config_default))]}
    /\ sys = Unconstructed
    /\ page = Unconstructed
    /\ \E v \in RoundTripValues :
        /\ config = [update_interval |-> v]
        /\ last = [type |-> "constructed", saved |-> v]
    /\ io = {}

\* self.save() with no filesystem failure
RoundTripSave ==
    /\ pc = "constructed"
    /\ LET w == save_digits(config, World(env, fs, {}), NoFailure, env.checked)
       IN  /\ fs' = [dir |-> w.dir, file |-> w.file]
           /\ io' = w.io
           /\ pc' = IF w.panicked THEN "panicked" ELSE "saved"
    /\ last' = [last EXCEPT !.type = "save"]
    /\ UNCHANGED <<env, sys, page, config>>

\* Config::load() with no filesystem failure
RoundTripLoad ==
    /\ pc = "saved"
    /\ LET r == load_digits(World(env, fs, {}), NoFailure)
       IN  /\ config' = r.config
           /\ fs' = [dir |-> r.w.dir, file |-> r.w.file]
           /\ io' = r.w.io
           /\ pc' = IF r.w.panicked THEN "panicked" ELSE "loaded"
    /\ last' = [last EXCEPT !.type = "load"]
    /\ UNCHANGED <<env, sys, page>>

RoundTripNext == RoundTripSave \/ RoundTripLoad

RoundTripSpec == RoundTripInit /\ [][RoundTripNext]_vars

----------------------------------------------------------------------------
(* The application on every width of update_interval, when no filesystem   *)
(* call fails.  The values are decimal digits; the f64 of                   *)
(* UpdateIntervalChanged is given by the whole part of value * 1000.0.      *)

\* The largest f64 below 2^63 (2^63 - 1024) and 2^64, in digits; 2^63 is
\* I64MaxPlus1.
F64BelowTwoTo63 == [I64Max EXCEPT ![16] = "4", ![17] = "7", ![18] = "8", ![19] = "4"]

TwoTo64 == [U64Max EXCEPT ![20] = "6"]

\* The products value * 1000.0 offered: those of the slider's steps, and
\* the f64 around the largest i64 and above the largest u64.
Products ==
    {u64_to_string(100 * k) : k \in 1..MaxSlider}
    \cup {F64BelowTwoTo63, I64MaxPlus1, TwoTo64}

\* (value * 1000.0) as u64 on a product that is not negative: the cast
\* saturates at the largest u64.
f64_as_u64_digits(product) == IF DecLeq(product, U64Max) THEN product ELSE U64Max

SettingsMessageDigits ==
    [type : {"UpdateIntervalChanged"}, product : Products]
    \cup {[type |-> t] : t \in {"SaveSettings", "CancelSettings", "ResetSettings"}}

RECURSIVE settings_page_update_digits(_, _, _)

\* settings_page_update, arm SettingsMessage::UpdateIntervalChanged(value)
update_interval_changed_digits(a, product) ==
    [a EXCEPT !.page.state.update_interval = f64_as_u64_digits(product)]

\* Mutant of save_settings_digits: the committed Config is not written.
save_settings_digits_without_save(a, checked) ==
    [a EXCEPT !.config.update_interval = a.page.state.update_interval]

\* settings_page_update, arm SettingsMessage::SaveSettings
save_settings_digits(a, checked) ==
    LET c == [a.config EXCEPT !.update_interval = a.page.state.update_interval]
    IN  [a EXCEPT !.config = c, !.w = save_digits(c, a.w, NoFailure, checked)]

\* settings_page_update, arm SettingsMessage::ResetSettings
reset_settings_digits(a, checked) ==
    LET w1 == save_digits(Config_default_digits, a.w, NoFailure, checked)
        a1 == [a EXCEPT !.config = Config_default_digits, !.w = w1]
    IN  IF w1.panicked THEN a1
        ELSE settings_page_update_digits(a1, [type |-> "CancelSettings"], checked)

\* ApplicationWindow::settings_page_update
settings_page_update_digits(a, message, checked) ==
    IF a.page.tag # "Settings" THEN a
    ELSE CASE message.type = "UpdateIntervalChanged"
                -> update_interval_changed_digits(a, message.product)
           [] message.type = "SaveSettings"   -> save_settings_digits(a, checked)
           [] message.type = "CancelSettings" -> cancel_settings(a)
           [] message.type = "ResetSettings"  -> reset_settings_digits(a, checked)

\* MainWindowPage::from_index
from_index_digits(index, w) ==
    CASE index = 0 -> [some |-> TRUE, page |-> Home, w |-> w]
      [] index = 1 -> LET r == load_digits(w, NoFailure)
                      IN  [some |-> TRUE, page |-> Settings(SettingsState_new(r.config)),
                           w |-> r.w]
      [] OTHER     -> [some |-> FALSE, w |-> w]

\* The config files a run can start from.
InitialFilesDigits ==
    {NoFile, File(<<>>)}
    \cup {File(toml_serialize(v, FALSE).text) : v \in {u64_to_string(500), I64Max, U64Max}}

DigitsInit ==
    /\ pc = "boot"
    /\ env \in [project_dirs : {TRUE}, checked : BOOLEAN]
    /\ fs \in {[dir |-> d, file |-> fl] : d \in BOOLEAN, fl \in InitialFilesDigits} \
              {[dir |-> FALSE, file |-> fl] : fl \in InitialFilesDigits \ {NoFile}}
    /\ sys = Unconstructed
    /\ page = Unconstructed
    /\ config = Unconstructed
    /\ last = [type |-> "none"]
    /\ io = {}

\* ApplicationWindow::new
NewDigits ==
    /\ pc = "boot"
    /\ \E s \in Snapshots :
        LET r == load_digits(World(env, fs, {}), NoFailure)
        IN  Commit(App(Home, r.config, r.w)) /\ sys' = s
    /\ last' = [type |-> "new"]
    /\ UNCHANGED env

\* ApplicationWindow::update, ApplicationMessage::TabSelected(index)
TabSelectedDigits(index) ==
    /\ pc = "running"
    /\ LET r == from_index_digits(index, World(env, fs, {}))
       IN  Commit(App(IF r.some THEN r.page ELSE page, config, r.w))
    /\ last' = [type |-> "TabSelected", index |-> index]
    /\ UNCHANGED <<env, sys>>

\* ApplicationWindow::update, ApplicationMessage::SettingsPageUpdated(message)
SettingsPageUpdatedDigits(message) ==
    /\ pc = "running"
    /\ Commit(settings_page_update_digits(App(page, config, World(env, fs, {})),
                                          message, env.checked))
    /\ last' = [type |-> "SettingsPageUpdated", message |-> message, on |-> page]
    /\ UNCHANGED <<env, sys>>

DigitsNext ==
    \/ NewDigits
    \/ UpdateInfo
    \/ \E index \in 0..MaxIndex : TabSelectedDigits(index)
    \/ \E message \in SettingsMessageDigits : SettingsPageUpdatedDigits(message)

DigitsSpec == DigitsInit /\ [][DigitsNext]_vars

----------------------------------------------------------------------------
(* Home page: views/home.rs.  A usage is an f32, value / F32Den percent.   *)

\* Largest number of cores of a snapshot.
MaxCores == 2

\* Usages k/8 percent, k up to MaxEighths: the values that lie exactly
\* between two hundredths are among them.
MaxEighths == 7

\* Every f32 from 8 to 128 is a whole number of 2^-20.
F32Den == 1048576

\* The f32 nearest to the usages of the examples of get_cpu_usage_row,
\* 12.345 and 99.999, and to 9.995 and 99.994.
Usage_12_345 == 12944671

Usage_99_999 == 104856552

Usage_9_995 == 10480517

Usage_99_994 == 104851312

\* The usages a core can report, from 0 to 100 percent.
CpuUsages ==
    {k * (F32Den \div 8) : k \in 0..MaxEighths}
    \cup {Usage_12_345, Usage_99_999, Usage_9_995, Usage_99_994, 50 * F32Den, 100 * F32Den}

\* The hundredths nearest to value / F32Den, a value halfway between two
\* going to the even one: the digits core::fmt produces for a precision of 2.
round_hundredths(value) ==
    LET t   == (value % F32Den) * 100
        h   == t \div F32Den
        rem == t % F32Den
        up  == 2 * rem > F32Den \/ (2 * rem = F32Den /\ h % 2 = 1)
    IN  (value \div F32Den) * 100 + h + (IF up THEN 1 ELSE 0)

RECURSIVE zero_pad(_, _)
\* The flag 0 of a format: zeros on the left up to the width.
zero_pad(s, width) == IF Len(s) >= width THEN s ELSE zero_pad(<<"0">> \o s, width)

\* Mutant of format_06_2: the third decimal is cut off.
format_06_2_truncates(value) ==
    LET h == (value \div F32Den) * 100 + ((value % F32Den) * 100) \div F32Den
    IN  zero_pad(u64_to_string(h \div 100)
                 \o <<".", Digit[(h % 100) \div 10 + 1], Digit[(h % 10) + 1]>>, 6)

\* format!("{:06.2}", cpu_usage)
format_06_2(value) ==
    LET h == round_hundredths(value)
    IN  zero_pad(u64_to_string(h \div 100)
                 \o <<".", Digit[(h % 100) \div 10 + 1], Digit[(h % 10) + 1]>>, 6)

\* The text before the usage of a row: format!("CPU {cpu_num}: ...").
RowPrefix(cpu_num) == <<"C", "P", "U", " ">> \o u64_to_string(cpu_num) \o <<":", " ">>

\* ApplicationWindow::get_cpu_usage_row: the text and the value of the
\* progress bar, whose range is 0 to 100.
get_cpu_usage_row(cpu_num, cpu_usage) ==
    [text     |-> RowPrefix(cpu_num) \o format_06_2(cpu_usage) \o <<"%">>,
     progress |-> cpu_usage]

\* Mutant of get_cpu_usage_panel: the rows are pushed last core first.
get_cpu_usage_panel_reversed(s) ==
    [i \in 1..Len(s.cpus) |->
        get_cpu_usage_row(Len(s.cpus) - i, s.cpus[Len(s.cpus) + 1 - i])]

\* ApplicationWindow::get_cpu_usage_panel: one row per core, in the order
\* of self.sys.cpus().
get_cpu_usage_panel(s) ==
    [i \in 1..Len(s.cpus) |-> get_cpu_usage_row(i - 1, s.cpus[i])]

\* What sysinfo can report for the cores.
HomeSnapshots == [cpus : UNION {[1..n -> CpuUsages] : n \in 0..MaxCores}]

HomeInit ==
    /\ pc = "running"
    /\ env = [project_dirs |-> TRUE]
    /\ fs = [dir |-> TRUE, file |-> File(toml_to_string(Config_default))]
    /\ sys \in HomeSnapshots
    /\ page = Home
    /\ config = Config_default
    /\ last = [type |-> "none"]
    /\ io = {}

\* ApplicationWindow::home_page_view: takes &self; last keeps what it returned.
home_page_view ==
    /\ pc = "running"
    /\ page = Home
    /\ last' = [type |-> "home_page_view", cpu_usage |-> get_cpu_usage_panel(sys)]
    /\ UNCHANGED <<pc, env, fs, sys, page, config, io>>

HomeNext == home_page_view

HomeSpec == HomeInit /\ [][HomeNext]_vars

----------------------------------------------------------------------------
(* Properties *)

\* The last step handled the settings message of type t.
Handled(t) == last.type = "SettingsPageUpdated" /\ last.message.type = t

\* The next step handles the settings message of type t.
Handles(t) == last'.type = "SettingsPageUpdated" /\ last'.message.type = t

\* The next step handles TabSelected(i) for some i of the set I.
Selects(I) == last'.type = "TabSelected" /\ last'.index \in I

\* What Config::load would return on the present filesystem when no call
\* fails: the value a restarted process would start from.
FreshLoadAt(e, f) == load(World(e, f, {}), NoFailure).config

FreshLoad == FreshLoadAt(env, fs)

\* C1: every TabSelected(1) leaves a Settings page whose draft is the
\* committed Config's update_interval, also after a Save that did not reach
\* the disk.
C1_EntryDraftIsCommitted ==
    (pc = "running" /\ last.type = "TabSelected" /\ last.index = 1)
        => /\ page.tag = "Settings"
           /\ page.state.update_interval = config.update_interval

\* C2 as stated: a SaveSettings handled on the Settings page leaves
\* committed = draft, the draft as it was, and a file from which a fresh
\* load() returns the committed value.
C2_SaveReachesDisk ==
    (pc = "running" /\ Handled("SaveSettings") /\ last.on.tag = "Settings")
        => /\ config.update_interval = last.on.state.update_interval
           /\ page = last.on
           /\ FreshLoad = config

\* C2 amended: a SaveSettings handled on the Settings page sets committed
\* to the draft and leaves the draft as it was; when the write was made and
\* succeeded the file holds the committed value and a fresh load() returns
\* it; when the directory could not be created no write is made, no file
\* exists and a fresh load() returns the default; a failed write panics.
C2_Save ==
    (Handled("SaveSettings") /\ last.on.tag = "Settings")
        => /\ config.update_interval = last.on.state.update_interval
           /\ page = last.on
           /\ Call("write", TRUE) \in io
                => /\ pc = "running"
                   /\ fs.file = File(toml_to_string(config))
                   /\ FreshLoad = config
           /\ Call("write", FALSE) \in io => pc = "panicked"
           /\ (\A ok \in BOOLEAN : Call("write", ok) \notin io)
                => /\ pc = "running"
                   /\ Call("mkdir", FALSE) \in io
                   /\ ~fs.file.exists
                   /\ FreshLoad = Config_default

\* A Save reached the disk with a value that is not the default.
C2_Witness ==
    /\ pc = "running" /\ Handled("SaveSettings") /\ last.on.tag = "Settings"
    /\ Call("write", TRUE) \in io
    /\ config.update_interval = 200
    /\ FreshLoad = config

\* C3: CancelSettings on the Settings page sets the draft to the committed
\* update_interval, whatever edits came before, and leaves the committed
\* Config and the file as they were.
C3_Cancel ==
    [][(pc = "running" /\ page.tag = "Settings" /\ Handles("CancelSettings"))
        => /\ page' = Settings([update_interval |-> config.update_interval])
           /\ config' = config
           /\ fs' = fs
           /\ io' = {}
           /\ pc' = "running"]_vars

\* A Cancel discarded an edited draft.
C3_Witness ==
    /\ pc = "running" /\ Handled("CancelSettings") /\ last.on.tag = "Settings"
    /\ last.on.state.update_interval # config.update_interval
    /\ page.state.update_interval = config.update_interval

\* C4 as stated: a ResetSettings handled on the Settings page leaves
\* committed = 1000, the value 1000 in the file and the draft at 1000.
C4_ResetReachesDisk ==
    (pc = "running" /\ Handled("ResetSettings") /\ last.on.tag = "Settings")
        => /\ config.update_interval = 1000
           /\ page = Settings([update_interval |-> 1000])
           /\ fs.file = File(toml_to_string(Config_default))

\* C4 amended: a ResetSettings handled on the Settings page sets committed
\* to 1000 from any prior state; when the handler returns, the draft is 1000
\* in the same step, the file holds 1000 if the write was made and no file
\* exists if the directory could not be created, and a following Cancel or
\* Settings re-entry shows draft 1000 whatever fails then; a failed write
\* panics before the draft is resynchronized.
C4_Reset ==
    (Handled("ResetSettings") /\ last.on.tag = "Settings")
        => /\ config.update_interval = 1000
           /\ pc = "running"
                => /\ page = Settings([update_interval |-> 1000])
                   /\ Call("write", TRUE) \in io
                        => fs.file = File(toml_to_string(Config_default))
                   /\ Call("write", TRUE) \notin io
                        => Call("mkdir", FALSE) \in io /\ ~fs.file.exists
                   /\ \A f \in Failures :
                        /\ cancel_settings(App(page, config, World(env, fs, {}))).page
                             = Settings([update_interval |-> 1000])
                        /\ from_index(1, World(env, fs, {}), f).page
                             = Settings([update_interval |-> 1000])
           /\ pc = "panicked" => Call("write", FALSE) \in io /\ page = last.on

\* A Reset replaced a committed value and a draft that were both not 1000.
C4_Witness ==
    /\ pc = "running" /\ Handled("ResetSettings") /\ last.on.tag = "Settings"
    /\ last.on.state.update_interval \notin {1000, 500}
    /\ Call("write", TRUE) \in io
    /\ page = Settings([update_interval |-> 1000])
    /\ config.update_interval = 1000

\* C5: no failure of a filesystem call crashes the process.
C5_NoFatalError == env.project_dirs => pc # "panicked"

\* C6: a settings message received while the page is Home changes nothing:
\* the page stays Home, the committed Config and the file are as they were
\* and no filesystem call is made.
C6_SettingsMessageOnHome ==
    [][(pc = "running" /\ page = Home /\ last'.type = "SettingsPageUpdated")
        => /\ page' = Home
           /\ config' = config
           /\ fs' = fs
           /\ io' = {}
           /\ pc' = "running"]_vars

\* A SaveSettings was handled on the Home page.
C6_Witness ==
    /\ pc = "running" /\ Handled("SaveSettings") /\ last.on = Home
    /\ page = Home

\* C7: TabSelected(index) with an index other than 0 and 1 leaves the page
\* (with its draft), the committed Config and the file as they were.
C7_InvalidIndex ==
    [][(pc = "running" /\ Selects(0..MaxIndex \ {0, 1}))
        => /\ page' = page
           /\ config' = config
           /\ fs' = fs
           /\ io' = {}
           /\ pc' = "running"]_vars

\* An invalid index was selected on a Settings page holding an unsaved edit.
C7_Witness ==
    /\ pc = "running" /\ last.type = "TabSelected" /\ last.index = 2
    /\ page.tag = "Settings"
    /\ page.state.update_interval # config.update_interval

\* C9: after startup the file is read by no message and written only by
\* SaveSettings and ResetSettings.
C9_FileAccess ==
    (\/ last.type \in {"UpdateInfo", "TabSelected"}
     \/ Handled("UpdateIntervalChanged")
     \/ Handled("CancelSettings"))
        => io = {}

HandlesNoSave ==
    \/ last'.type \in {"UpdateInfo", "TabSelected"}
    \/ Handles("UpdateIntervalChanged")
    \/ Handles("CancelSettings")

\* The file is there and load cannot parse it.
Unparseable(file) == file.exists /\ ~toml_from_str(file.contents).ok

\* C11: load() at startup on a file that cannot be read or parsed returns
\* 1000 and leaves the file as it is, and no later UpdateInfo, TabSelected,
\* UpdateIntervalChanged or CancelSettings changes a file that exists.
C11_UnparseableFileUntouched ==
    [][/\ (pc = "boot" /\ pc' = "running"
             /\ (Unparseable(fs.file) \/ Call("read", FALSE) \in io'))
          => /\ config' = Config_default
             /\ fs' = fs
             /\ \A ok \in BOOLEAN : Call("write", ok) \notin io'
       /\ (pc = "running" /\ fs.file.exists /\ HandlesNoSave)
          => /\ fs' = fs
             /\ \A ok \in BOOLEAN : Call("write", ok) \notin io']_vars

\* The Settings page was entered while the file on disk was unparseable:
\* the file is still the same and the draft is the default.
C11_Witness ==
    /\ pc = "running" /\ last.type = "TabSelected" /\ last.index = 1
    /\ fs.file = File(KeyPrefix \o <<"x", "\n">>)
    /\ io = {Call("read", TRUE)}
    /\ page = Settings([update_interval |-> 1000])

\* C12 as stated: a SaveSettings whose save() cannot create the directory
\* leaves the filesystem, the committed Config, the draft and the page as
\* they were before the message.
C12_FailedSaveChangesNothing ==
    [][(pc = "running" /\ page.tag = "Settings" /\ Handles("SaveSettings")
          /\ Call("mkdir", FALSE) \in io')
        => /\ fs' = fs
           /\ config' = config
           /\ page' = page]_vars

\* C12 amended: when save() cannot create the directory, in SaveSettings or
\* ResetSettings, nothing is written and the filesystem is as before; a
\* SaveSettings failing this way leaves draft and page as they were and the
\* committed Config holds the draft's value: the assignment made before
\* save() is not undone.
C12_FailedSave ==
    [][/\ (pc = "running" /\ page.tag = "Settings" /\ Call("mkdir", FALSE) \in io'
             /\ (Handles("SaveSettings") \/ Handles("ResetSettings")))
          => /\ fs' = fs
             /\ io' = {Call("mkdir", FALSE)}
             /\ pc' = "running"
       /\ (pc = "running" /\ page.tag = "Settings" /\ Call("mkdir", FALSE) \in io'
             /\ Handles("SaveSettings"))
          => /\ page' = page
             /\ config' = [update_interval |-> page.state.update_interval]]_vars

\* A Save could not create the directory and the committed value changed.
C12_Witness ==
    /\ pc = "running" /\ Handled("SaveSettings") /\ last.on.tag = "Settings"
    /\ io = {Call("mkdir", FALSE)}
    /\ ~fs.dir /\ ~fs.file.exists
    /\ config.update_interval = 200
    /\ page = last.on

\* value * 1000 rounded to the nearest integer.
round_millis(value) == (2 * value * 1000 + F64Den) \div (2 * F64Den)

\* C14: UpdateIntervalChanged(s) on the Settings page sets the draft to
\* round(s * 1000) and leaves the committed Config and the file unchanged.
C14_DraftIsRounded ==
    [][(pc = "running" /\ page.tag = "Settings" /\ Handles("UpdateIntervalChanged"))
        => /\ page' = Settings([update_interval |-> round_millis(last'.message.value)])
           /\ config' = config
           /\ fs' = fs]_vars

\* C15: the committed Config changes only in a SaveSettings or
\* ResetSettings handled on the Settings page; UpdateInfo, TabSelected,
\* UpdateIntervalChanged and CancelSettings leave it as it was.
C15_ConfigFrame ==
    [][/\ (pc = "running" /\ config' # config)
          => /\ page.tag = "Settings"
             /\ Handles("SaveSettings") \/ Handles("ResetSettings")
       /\ (pc = "running" /\ HandlesNoSave) => config' = config]_vars

\* The Settings page was entered with a draft read from the disk that is
\* not the committed value, and the committed value stayed.
C15_Witness ==
    /\ pc = "running" /\ last.type = "TabSelected" /\ last.index = 1
    /\ page.tag = "Settings"
    /\ page.state.update_interval = 500
    /\ config.update_interval = 1000

\* C16: entering the Settings page, editing and leaving by CancelSettings
\* or TabSelected without SaveSettings or ResetSettings never changes the
\* value a fresh load() returns.
C16_DraftNotPersisted ==
    [][(pc = "running" /\ HandlesNoSave)
        => \A e \in {env'}, f \in {fs'} : FreshLoadAt(e, f) = FreshLoad]_vars

\* An edited draft was cancelled and a fresh load() returns neither the
\* draft nor the default.
C16_Witness ==
    /\ pc = "running" /\ Handled("CancelSettings") /\ last.on.tag = "Settings"
    /\ last.on.state.update_interval = 200
    /\ FreshLoad.update_interval = 500

\* C17: UpdateInfo replaces the snapshot by a new one and leaves the page,
\* the draft, the committed Config and the file unchanged, on either page.
C17_TickFrame ==
    [][(pc = "running" /\ last'.type = "UpdateInfo")
        => /\ sys' \in Snapshots
           /\ page' = page
           /\ config' = config
           /\ fs' = fs
           /\ io' = {}
           /\ pc' = "running"]_vars

\* A tick arrived on the Settings page while the draft was edited.
C17_Witness ==
    /\ pc = "running" /\ last.type = "UpdateInfo"
    /\ page.tag = "Settings"
    /\ page.state.update_interval # config.update_interval
    /\ sys = [cpu_usage |-> 1, used_memory |-> 1]

C19_IntervalPositive == pc = "running" => config.update_interval > 0

\* The file does not hold the value 0.
DiskPositiveAt(f) ==
    (f.file.exists /\ toml_from_str(f.file.contents).ok)
        => toml_from_str(f.file.contents).config.update_interval > 0

DiskPositive == DiskPositiveAt(fs)

\* The committed value and the draft are greater than 0.
MemoryPositive ==
    pc = "running"
        => /\ config.update_interval > 0
           /\ page.tag = "Settings" => page.state.update_interval > 0

\* C19 amended: when the config file does not hold the value 0, the
\* committed update_interval is greater than 0 in every state, for any
\* sequence of operations with inputs of the slider range: a step from a
\* state with a positive file, committed value and draft leads to one.
C19_IntervalStaysPositive ==
    [][(DiskPositive /\ MemoryPositive)
        => /\ \A f \in {fs'} : DiskPositiveAt(f)
           /\ MemoryPositive']_vars

\* The smallest slider value was saved.
C19_Witness ==
    /\ pc = "running" /\ Handled("SaveSettings") /\ last.on.tag = "Settings"
    /\ config.update_interval = 100
    /\ DiskPositive /\ MemoryPositive
    /\ Call("write", TRUE) \in io

\* A page is Home, without a draft, or Settings with one.
OnePage(p) ==
    \/ p = Home
    \/ /\ p.tag = "Settings"
       /\ DOMAIN p = {"tag", "state"}
       /\ DOMAIN p.state = {"update_interval"}

\* C20: the application starts on Home with the Config load() returned; in
\* every state the page is Home without a draft or Settings with a draft;
\* TabSelected(0) leads to Home from any state.
C20_OnePageLive ==
    [][pc' = "running"
        => /\ OnePage(page')
           /\ pc = "boot"
                => /\ page' = Home
                   /\ \E f \in Failures :
                        LET r == load(World(env, fs, {}), f)
                        IN  config' = r.config /\ io' = r.w.io
           /\ (pc = "running" /\ Selects({0})) => page' = Home]_vars

\* The home page was selected while a saved, non-default Config is committed.
C20_Witness ==
    /\ pc = "running" /\ last.type = "TabSelected" /\ last.index = 0
    /\ page = Home
    /\ config.update_interval = 200

\* C13 as stated: for every u64 v, save() of Config{update_interval: v}
\* followed by load() returns a Config whose update_interval is v.
C13_RoundTrip ==
    /\ pc # "panicked"
    /\ pc = "loaded" => config.update_interval = last.saved

\* C13 amended: for every v up to the largest i64 (9223372036854775807),
\* save() followed by load() returns update_interval = v; for a larger v
\* save() panics on serialization or writes a number load() cannot parse,
\* and load() then returns 1000.
C13_RoundTripInRange ==
    IF DecLeq(last.saved, I64Max)
    THEN /\ pc # "panicked"
         /\ pc = "loaded"
              => /\ config.update_interval = last.saved
                 /\ fs.file = File(KeyPrefix \o last.saved \o <<"\n">>)
    ELSE /\ pc = "panicked" <=> (env.checked /\ last.type = "save")
         /\ pc = "loaded" => config = Config_default_digits

\* The largest i64 was saved and loaded back.
C13_Witness ==
    /\ pc = "loaded"
    /\ last.saved = I64Max
    /\ config.update_interval = I64Max

\* The six characters after the prefix of a row's text.
UsageText(row, cpu_num) ==
    SubSeq(row.text, Len(RowPrefix(cpu_num)) + 1, Len(RowPrefix(cpu_num)) + 6)

\* text is ddd.dd and is one of the hundredths nearest to value / F32Den.
IsRounded(text, value) ==
    /\ Len(text) = 6
    /\ text[4] = "."
    /\ \A i \in {1, 2, 3, 5, 6} : IsDigit(text[i])
    /\ LET h == string_to_u64(SubSeq(text, 1, 3) \o SubSeq(text, 5, 6))
           d == h - (value \div F32Den) * 100
       IN  /\ d \in 0..100
           /\ 2 * (d * F32Den - (value % F32Den) * 100) \in (0 - F32Den)..F32Den

\* C21: every row of the home page shows its core's usage rounded to two
\* decimals and zero-padded to six characters (12.345 as 012.35, 99.999 and
\* 100.0 as 100.00, 0.0 as 000.00), and the rows are those of the cores 0
\* to core_count - 1 in the order of the snapshot.
C21_CpuText ==
    last.type = "home_page_view"
        => /\ Len(last.cpu_usage) = Len(sys.cpus)
           /\ \A i \in 1..Len(sys.cpus) :
                LET row == last.cpu_usage[i]
                    six == UsageText(row, i - 1)
                IN  /\ row.text = RowPrefix(i - 1) \o six \o <<"%">>
                    /\ row.progress = sys.cpus[i]
                    /\ IsRounded(six, sys.cpus[i])
                    /\ sys.cpus[i] = Usage_12_345 => six = <<"0", "1", "2", ".", "3", "5">>
                    /\ sys.cpus[i] \in {Usage_99_999, 100 * F32Den}
                         => six = <<"1", "0", "0", ".", "0", "0">>
                    /\ sys.cpus[i] = 0 => six = <<"0", "0", "0", ".", "0", "0">>

\* Two cores were rendered: 12.345 on the first row, 99.999 on the second.
C21_Witness ==
    /\ last.type = "home_page_view"
    /\ sys.cpus = <<Usage_12_345, Usage_99_999>>
    /\ last.cpu_usage[1].text
         = <<"C", "P", "U", " ", "0", ":", " ", "0", "1", "2", ".", "3", "5", "%">>
    /\ last.cpu_usage[2].text
         = <<"C", "P", "U", " ", "1", ":", " ", "1", "0", "0", ".", "0", "0", "%">>

\* What Config::load would return on the present filesystem, in digits.
FreshLoadDigits == load_digits(World(env, fs, {}), NoFailure).config

\* C22 as stated: when no filesystem call has failed, a fresh load()
\* returns the committed Config in every state.
C22_FreshLoadIsCommitted == pc = "running" => FreshLoadDigits = config

\* C22 amended: when no filesystem call has failed, a fresh load() returns
\* the committed Config in every state in which the committed
\* update_interval is at most the largest i64, also after a start from an
\* absent or unparseable file; a larger one is committed only by a
\* SaveSettings of such a draft, which panics in serialization or writes a
\* number load() cannot parse, and a fresh load() then returns 1000.
C22_PersistenceConsistent ==
    pc # "boot"
        => IF DecLeq(config.update_interval, I64Max)
           THEN pc = "running" /\ FreshLoadDigits = config
           ELSE /\ pc = "running"
                   => /\ ~env.checked
                      /\ FreshLoadDigits = Config_default_digits
                      /\ fs.file = File(KeyPrefix \o config.update_interval \o <<"\n">>)
                /\ pc = "panicked" => env.checked /\ Handled("SaveSettings")

\* A draft was saved and a fresh load() returns it.
C22_Witness ==
    /\ pc = "running" /\ Handled("SaveSettings") /\ last.on.tag = "Settings"
    /\ config.update_interval = u64_to_string(200)
    /\ FreshLoadDigits = config
    /\ Call("write", TRUE) \in io

\* C23: TabSelected(1) handled on the Settings page replaces the page by a
\* Settings page whose draft is SettingsState::new of the Config load()
\* returns, whatever the draft was, and leaves the committed Config as it was.
C23_ReentryReinitializesDraft ==
    [][(pc = "running" /\ page.tag = "Settings" /\ Selects({1}))
        => /\ \E f \in Failures :
                LET r == load(World(env, fs, {}), f)
                IN  /\ page' = Settings(SettingsState_new(r.config))
                    /\ io' = r.w.io
           /\ page'.state.update_interval
                \in {FreshLoad.update_interval, Config_default.update_interval}
           /\ config' = config
           /\ pc' = "running"]_vars

\* The Settings page was selected again while it held an unsaved edit, and
\* the edit is gone.
C23_Witness ==
    /\ pc = "running" /\ last.type = "TabSelected" /\ last.index = 1
    /\ last.on.tag = "Settings"
    /\ last.on.state.update_interval = 200
    /\ page = Settings([update_interval |-> 1000])
    /\ config.update_interval = 1000

\* C24: the period of the timer subscription is the committed
\* update_interval, and no UpdateIntervalChanged, CancelSettings, TabSelected
\* or UpdateInfo changes it: edits that are not saved leave it at the value
\* committed before them, also after a cancel or a change of page.
C24_EditsKeepPeriod ==
    [][(pc = "running" /\ HandlesNoSave)
        => /\ pc' = "running"
           /\ subscription' = subscription
           /\ subscription' = config.update_interval]_vars

\* An edited draft was left behind by selecting the home page, and the
\* period is still the committed one.
C24_Witness ==
    /\ pc = "running" /\ last.type = "TabSelected" /\ last.index = 0
    /\ last.on.tag = "Settings"
    /\ last.on.state.update_interval = 200
    /\ subscription = 500

\* A value of the slider's range, 0.1 s to 10.0 s.
InSliderRange(value) == SliderMin <= value /\ value <= SliderMax

\* An interval of 100 ms to 10000 ms.
InRange(millis) == millis \in 100..10000

\* The drafts the out-of-range values give.
OutOfRangeDrafts == {f64_to_millis(value) : value \in OutOfRangeValues}

\* The next step handles an UpdateIntervalChanged on the Settings page.
HandlesEdit ==
    pc = "running" /\ page.tag = "Settings" /\ Handles("UpdateIntervalChanged")

\* An edit leaves the draft at the whole milliseconds of value, with no
\* clamping, and the committed Config and the file as they were.
EditIsUnclamped ==
    HandlesEdit
        => /\ page'.state.update_interval * F64Den <= last'.message.value * 1000
           /\ last'.message.value * 1000 < (page'.state.update_interval + 1) * F64Den
           /\ config' = config
           /\ fs' = fs

\* C25 as stated: an edit with a value of the slider's range leaves a draft
\* within [100, 10000], every value a SaveSettings or ResetSettings commits
\* and writes is within [100, 10000] unless the draft is one an out-of-range
\* value gives, and an edit with any value is stored unclamped.
C25_CommittedInRange ==
    [][/\ (HandlesEdit /\ InSliderRange(last'.message.value))
          => InRange(page'.state.update_interval)
       /\ (pc = "running" /\ page.tag = "Settings"
             /\ (Handles("SaveSettings") \/ Handles("ResetSettings"))
             /\ page.state.update_interval \notin OutOfRangeDrafts)
          => InRange(config'.update_interval)
       /\ EditIsUnclamped]_vars

\* The file holds a value within [100, 10000], cannot be parsed or is absent.
DiskInRangeAt(f) ==
    (f.file.exists /\ toml_from_str(f.file.contents).ok)
        => InRange(toml_from_str(f.file.contents).config.update_interval)

\* The committed value c and the draft of page p are within [100, 10000].
MemoryInRangeAt(q, c, p) ==
    q = "running"
        => /\ InRange(c.update_interval)
           /\ p.tag = "Settings" => InRange(p.state.update_interval)

\* C25 amended: an edit with a value of the slider's range leaves a draft
\* within [100, 10000]; when the config file holds a value within
\* [100, 10000] (or none), the drafts, the committed values and the values
\* written stay within [100, 10000] as long as no edit carries a value
\* outside the slider's range, while a SaveSettings commits and writes the
\* draft it finds, whatever it is; an edit with any value is stored
\* unclamped.
C25_RangeKept ==
    [][/\ (HandlesEdit /\ InSliderRange(last'.message.value))
          => InRange(page'.state.update_interval)
       /\ (MemoryInRangeAt(pc, config, page)
             /\ ~(HandlesEdit /\ ~InSliderRange(last'.message.value))
             /\ DiskInRangeAt(fs))
          => \A f \in {fs'}, q \in {pc'}, c \in {config'}, p \in {page'} :
                MemoryInRangeAt(q, c, p) /\ (f = fs \/ DiskInRangeAt(f))
       /\ (pc = "running" /\ page.tag = "Settings" /\ Handles("SaveSettings"))
          => /\ config'.update_interval = page.state.update_interval
             /\ Call("write", TRUE) \in io'
                  => \A f \in {fs'}, c \in {config'} : f.file = File(toml_to_string(c))
       /\ EditIsUnclamped]_vars

\* An edit with 10.5 s left a draft of 10500 ms, which a SaveSettings
\* committed and wrote.
C25_Witness ==
    /\ pc = "running" /\ Handled("SaveSettings") /\ last.on.tag = "Settings"
    /\ last.on.state.update_interval = 10500
    /\ config.update_interval = 10500
    /\ fs.file = File(toml_to_string(config))

====
